---- MODULE Spec2Model ----
(***************************************************************************)
(* Model of convert.py: the DMS parser dms_to_decimal, the pair wrapper    *)
(* convert_coordinate_string, and the two file pipelines                   *)
(* convert_coordinates_file and convert_firetower_csv.                     *)
(*                                                                         *)
(* A string is a sequence of one-character strings.  The degree sign is    *)
(* written DEG and the double quote DQ.  A float is a record               *)
(* [neg, int, frac]: sign bit, integer part and the 8 decimals as a        *)
(* number in 0..10^8-1, which is what round(decimal, 8) leaves.            *)
(***************************************************************************)
EXTENDS Integers, Sequences, FiniteSets, TLC

VARIABLES dms_string, form, ret, sample_i, pair,
          fs, func, input_file, output_file, infile, outfile, reader, fieldnames,
          rows, conversion_count, error_count, stdout, pc, exc, pass

vars == <<dms_string, form, ret, sample_i, pair,
          fs, func, input_file, output_file, infile, outfile, reader, fieldnames,
          rows, conversion_count, error_count, stdout, pc, exc, pass>>

parseVars == <<dms_string, form, ret, sample_i, pair>>
fileVars == <<fs, func, input_file, output_file, infile, outfile, reader, fieldnames,
              rows, conversion_count, error_count, stdout, pc, exc, pass>>

----------------------------------------------------------------------------
(* Characters *)

DEG == "deg"
DQ == "dq"
AP == "'"
SP == " "

Digits == {"0", "1", "2", "3", "4", "5", "6", "7", "8", "9"}
DigitsDot == Digits \cup {"."}
NSEW == {"N", "S", "E", "W"}

DigitVal(c) ==
    CASE c = "0" -> 0 [] c = "1" -> 1 [] c = "2" -> 2 [] c = "3" -> 3
      [] c = "4" -> 4 [] c = "5" -> 5 [] c = "6" -> 6 [] c = "7" -> 7
      [] c = "8" -> 8 [] c = "9" -> 9

DigitChar(n) ==
    CASE n = 0 -> "0" [] n = 1 -> "1" [] n = 2 -> "2" [] n = 3 -> "3"
      [] n = 4 -> "4" [] n = 5 -> "5" [] n = 6 -> "6" [] n = 7 -> "7"
      [] n = 8 -> "8" [] n = 9 -> "9"

RECURSIVE Pow10(_)
Pow10(n) == IF n = 0 THEN 1 ELSE 10 * Pow10(n - 1)

----------------------------------------------------------------------------
(* str.strip(): drop leading and trailing whitespace *)

RECURSIVE lstrip(_)
lstrip(s) == IF s # <<>> /\ Head(s) = SP THEN lstrip(Tail(s)) ELSE s

RECURSIVE rstrip(_)
rstrip(s) ==
    IF s # <<>> /\ s[Len(s)] = SP THEN rstrip(SubSeq(s, 1, Len(s) - 1)) ELSE s

strip(s) == rstrip(lstrip(s))

----------------------------------------------------------------------------
(* The three regular expressions and re.search *)

NoMatch == [found |-> FALSE, groups |-> <<>>]

\* The list with the single-apostrophe pattern tried first.
patterns_single_first == << <<AP>>, <<DQ>>, <<AP, AP>> >>

\* The list with the third pattern a copy of the first.
patterns_third_doubled == << <<AP, AP>>, <<DQ>>, <<AP, AP>> >>

\* The seconds terminator of each pattern, in list order.
patterns == << <<AP, AP>>, <<DQ>>, <<AP>> >>

\* First index >= i whose character is outside cls (Len(s)+1 if none): the
\* end of the greedy run of cls.  Every class here is followed by a literal
\* outside the class, so backtracking cannot shorten the run.
RECURSIVE RunEnd(_, _, _)
RunEnd(s, i, cls) ==
    IF i <= Len(s) /\ s[i] \in cls THEN RunEnd(s, i + 1, cls) ELSE i

HasAt(s, i, lit) ==
    /\ i + Len(lit) - 1 <= Len(s)
    /\ \A k \in 1..Len(lit) : s[i + k - 1] = lit[k]

\* (\d+)deg(\d+)'([\d.]+)TERM([NSEW]) matched with its first character at i.
MatchAt(term, s, i) ==
    LET a == RunEnd(s, i, Digits)
        b == RunEnd(s, a + 1, Digits)
        c == RunEnd(s, b + 1, DigitsDot)
        h == c + Len(term)
    IN  IF /\ a > i
           /\ HasAt(s, a, <<DEG>>)
           /\ b > a + 1
           /\ HasAt(s, b, <<AP>>)
           /\ c > b + 1
           /\ HasAt(s, c, term)
           /\ h <= Len(s)
           /\ s[h] \in NSEW
        THEN [found |-> TRUE,
              groups |-> <<SubSeq(s, i, a - 1), SubSeq(s, a + 1, b - 1),
                           SubSeq(s, b + 1, c - 1), s[h]>>]
        ELSE NoMatch

RECURSIVE SearchFrom(_, _, _)
SearchFrom(term, s, i) ==
    IF i > Len(s) THEN NoMatch
    ELSE IF MatchAt(term, s, i).found THEN MatchAt(term, s, i)
    ELSE SearchFrom(term, s, i + 1)

\* re.search(pattern, s): the leftmost match.
re_search(term, s) == SearchFrom(term, s, 1)

\* for pattern in patterns: match = re.search(...); if match: break
RECURSIVE TryPatternsIn(_, _, _)
TryPatternsIn(ps, s, k) ==
    IF k > Len(ps) THEN [pattern |-> 0, match |-> NoMatch]
    ELSE IF re_search(ps[k], s).found
         THEN [pattern |-> k, match |-> re_search(ps[k], s)]
         ELSE TryPatternsIn(ps, s, k + 1)

TryPatterns(s, k) == TryPatternsIn(patterns, s, k)

----------------------------------------------------------------------------
(* int(), float(), the conversion, round(), str() *)

RECURSIVE int(_)
int(ds) ==
    IF ds = <<>> THEN 0 ELSE 10 * int(SubSeq(ds, 1, Len(ds) - 1)) + DigitVal(ds[Len(ds)])

RECURSIVE Count(_, _)
Count(s, c) ==
    IF s = <<>> THEN 0 ELSE (IF Head(s) = c THEN 1 ELSE 0) + Count(Tail(s), c)

RECURSIVE Without(_, _)
Without(s, c) ==
    IF s = <<>> THEN <<>>
    ELSE IF Head(s) = c THEN Without(Tail(s), c)
    ELSE <<Head(s)>> \o Without(Tail(s), c)

\* Number of characters after the decimal point (0 if there is none).
Decimals(txt) ==
    IF Count(txt, ".") = 0 THEN 0
    ELSE Len(txt) - (CHOOSE i \in 1..Len(txt) : txt[i] = ".")

\* float(txt) for a text of digits and dots: ValueError unless there is at
\* most one dot and at least one digit; otherwise mant / 10^scale.
float(txt) ==
    IF Count(txt, ".") > 1 \/ Without(txt, ".") = <<>>
    THEN [ok |-> FALSE, mant |-> 0, scale |-> 0]
    ELSE [ok |-> TRUE, mant |-> int(Without(txt, ".")), scale |-> Decimals(txt)]

\* n/m rounded to the nearest integer, ties to even.
RoundHalfEven(n, m) ==
    LET q == n \div m
        r == n % m
    IN  IF 2 * r > m THEN q + 1
        ELSE IF 2 * r < m THEN q
        ELSE IF q % 2 = 0 THEN q ELSE q + 1

\* degrees + minutes/60 + seconds/3600, negated for S and W, rounded to 8
\* decimals.  Computed exactly: with den = 3600*10^scale the sum is
\* degrees + t/den, and 10^8/den = 25*10^(4-scale)/9 (scale <= 4).  The
\* exact value is never within 1/18 of a rounding tie, far more than the
\* error of the double arithmetic, so the double result is the same.
\* Only the southern hemisphere negated.
Negative_only_S(direction) == direction \in {"S"}

Negative(direction) == direction \in {"S", "W"}

Decimal(degrees, minutes, seconds, direction) ==
    LET den == 3600 * Pow10(seconds.scale)
        t == minutes * 60 * Pow10(seconds.scale) + seconds.mant
        whole == degrees + (t \div den)
        f == RoundHalfEven((t % den) * 25 * Pow10(4 - seconds.scale), 9)
    IN  [neg |-> Negative(direction),
         int |-> IF f = Pow10(8) THEN whole + 1 ELSE whole,
         frac |-> IF f = Pow10(8) THEN 0 ELSE f]

RECURSIVE NatStr(_)
NatStr(n) ==
    IF n < 10 THEN <<DigitChar(n)>> ELSE NatStr(n \div 10) \o <<DigitChar(n % 10)>>

RECURSIVE ZeroPad(_, _)
ZeroPad(s, w) == IF Len(s) >= w THEN s ELSE ZeroPad(<<"0">> \o s, w)

RECURSIVE StripZeros(_)
StripZeros(s) ==
    IF s # <<>> /\ s[Len(s)] = "0" THEN StripZeros(SubSeq(s, 1, Len(s) - 1)) ELSE s

\* str(x) of a float with at most 8 decimals: shortest repr, which is
\* scientific below 1e-4 and positional otherwise.
str(x) ==
    LET sign == IF x.neg THEN <<"-">> ELSE <<>>
        sig == StripZeros(NatStr(x.frac))
        fr == StripZeros(ZeroPad(NatStr(x.frac), 8))
    IN  IF x.int = 0 /\ x.frac > 0 /\ x.frac < Pow10(4)
        THEN sign \o <<Head(sig)>>
                  \o (IF Len(sig) > 1 THEN <<".">> \o Tail(sig) ELSE <<>>)
                  \o <<"e", "-", "0", DigitChar(9 - Len(NatStr(x.frac)))>>
        ELSE sign \o NatStr(x.int) \o <<".">> \o (IF fr = <<>> THEN <<"0">> ELSE fr)

----------------------------------------------------------------------------
(* dms_to_decimal *)

Zero == [neg |-> FALSE, int |-> 0, frac |-> 0]

\* The outcome of one call: kind is "None", "float" or "ValueError" (the
\* exception float() raises); printed is what the call wrote to stdout;
\* pattern and groups are the loop's result.
Outcome(kind, value, printed, pattern, groups) ==
    [kind |-> kind, value |-> value, printed |-> printed,
     pattern |-> pattern, groups |-> groups]

\* A variant that falls back to reading the token as a plain signed decimal
\* when no pattern matches.
dms_to_decimal_accepts_decimal(s) ==
    IF s = <<>> \/ strip(s) = <<>>
    THEN Outcome("None", Zero, <<>>, 0, <<>>)
    ELSE LET t == strip(s)
             m == TryPatterns(t, 1)
             g == m.match.groups
             body == IF Head(t) = "-" THEN Tail(t) ELSE t
             dot == CHOOSE i \in 1..Len(body) : body[i] = "."
             plain == /\ \A i \in 1..Len(body) : body[i] \in DigitsDot
                      /\ Count(body, ".") = 1
                      /\ Len(body) > 1
                      /\ Len(body) - dot <= 8
         IN  IF ~m.match.found /\ plain
             THEN Outcome("float",
                          [neg |-> Head(t) = "-",
                           int |-> int(SubSeq(body, 1, dot - 1)),
                           frac |-> int(SubSeq(body, dot + 1, Len(body)))
                                      * Pow10(8 - (Len(body) - dot))],
                          <<>>, 0, <<>>)
             ELSE IF ~m.match.found
             THEN Outcome("None", Zero, << <<"Could not parse: ", t>> >>, 0, <<>>)
             ELSE IF ~float(g[3]).ok
             THEN Outcome("ValueError", Zero, <<>>, m.pattern, g)
             ELSE Outcome("float", Decimal(int(g[1]), int(g[2]), float(g[3]), g[4]),
                          <<>>, m.pattern, g)

dms_to_decimal(s) ==
    IF s = <<>> \/ strip(s) = <<>>
    THEN Outcome("None", Zero, <<>>, 0, <<>>)
    ELSE LET t == strip(s)
             m == TryPatterns(t, 1)
             g == m.match.groups
         IN  IF ~m.match.found
             THEN Outcome("None", Zero, << <<"Could not parse: ", t>> >>, 0, <<>>)
             ELSE IF ~float(g[3]).ok
             THEN Outcome("ValueError", Zero, <<>>, m.pattern, g)
             ELSE Outcome("float", Decimal(int(g[1]), int(g[2]), float(g[3]), g[4]),
                          <<>>, m.pattern, g)


\* convert_coordinate_string: the two calls, in order.
convert_coordinate_string(lat_dms, lng_dms) ==
    <<dms_to_decimal(lat_dms), dms_to_decimal(lng_dms)>>

\* test_coords of the __main__ block.
test_coords ==
    << << <<"3", "3", DEG, "4", "7", AP, "4", "0", AP, AP, "N">>,
          <<"8", "9", DEG, "0", "5", AP, "2", "7", AP, AP, "W">> >>,
       << <<"3", "3", DEG, "0", "8", AP, "0", "3", AP, AP, "N">>,
          <<"8", "8", DEG, "5", "1", AP, "0", "7", AP, AP, "W">> >>,
       << <<"3", "2", DEG, "1", "9", AP, "1", "2", ".", "8", DQ, "N">>,
          <<"8", "9", DEG, "4", "0", AP, "0", "1", ".", "0", DQ, "W">> >> >>

----------------------------------------------------------------------------
(* Inputs of the parser *)

DegTexts == {<<"1">>, <<"3", "3">>, <<"2", "0", "0">>, <<"0">>}
MinTexts == {<<"2">>, <<"0", "5">>, <<"6", "1">>, <<"0">>}
SecTexts == {<<"0", ".", "3">>, <<"4", "0">>, <<"1", "2", ".", "8">>, <<"0", "1", ".", "0">>,
             <<".", "5">>, <<"5", ".">>, <<"0">>, <<".">>, <<"1", ".", "2", ".", "3">>}
TermTexts == {<<AP, AP>>, <<DQ>>, <<AP>>, <<>>}
HemiChars == NSEW \cup {"x"}
Affixes == {<< <<>>, <<>> >>, << <<SP>>, <<SP>> >>, << <<"x">>, <<>> >>,
            << <<>>, <<"x">> >>, << <<"7">>, <<"x", "N">> >>}

Forms ==
    [kind : {"dms"}, pre : {a[1] : a \in Affixes}, deg : DegTexts, min : MinTexts,
     sec : SecTexts, term : TermTexts, hemi : HemiChars, suf : {a[2] : a \in Affixes}]

Build(f) ==
    f.pre \o f.deg \o <<DEG>> \o f.min \o <<AP>> \o f.sec \o f.term \o <<f.hemi>> \o f.suf

FreeForm ==
    [kind |-> "free", pre |-> <<>>, deg |-> <<>>, min |-> <<>>, sec |-> <<>>,
     term |-> <<>>, hemi |-> "x", suf |-> <<>>]

MainForm == [FreeForm EXCEPT !.kind = "main"]

Core(d, sec, term, h) == d \o <<DEG>> \o <<"2">> \o <<AP>> \o sec \o term \o <<h>>

\* Tokens holding two DMS substrings, each with its own terminator.
TwoCores ==
    {Core(<<"1">>, <<"3">>, t1, "N") \o sep \o Core(<<"4">>, <<"6">>, t2, "S") :
        t1 \in TermTexts \ {<<>>}, t2 \in TermTexts \ {<<>>}, sep \in {<<>>, <<SP>>}}

ExtraTokens ==
    {<<>>, <<SP>>, <<SP, SP>>, <<"g", "a", "r", "b", "a", "g", "e">>,
     <<SP, "x", SP>>, <<"3", "3", ".", "7", "9">>, <<"-", "8", "9", ".", "0">>,
     <<"1", DEG, "2", AP>>, <<DEG, "2", AP, "3", AP, "N">>,
     <<"1", DEG, AP, "3", AP, "N">>, <<"1", DEG, "2", AP, AP, "N">>}
    \cup TwoCores

Pending == [kind |-> "pending", value |-> Zero, printed |-> <<>>,
            pattern |-> 0, groups |-> <<>>]

----------------------------------------------------------------------------
(* Files *)

Missing == [exists |-> FALSE, fieldnames |-> <<>>, rows |-> <<>>]

FileIdle ==
    /\ fs = [p \in {"in", "out"} |-> Missing]
    /\ func = "none"
    /\ input_file = "in"
    /\ output_file = "out"
    /\ infile = "unopened"
    /\ outfile = "unopened"
    /\ reader = <<>>
    /\ fieldnames = <<>>
    /\ rows = <<>>
    /\ conversion_count = 0
    /\ error_count = 0
    /\ stdout = <<>>
    /\ pc = "idle"
    /\ exc = "none"
    /\ pass = 0

----------------------------------------------------------------------------
(* The parser run on one token, and the sample loop of __main__ *)

InitParse ==
    /\ \/ \E f \in Forms :
            /\ \E a \in Affixes : f.pre = a[1] /\ f.suf = a[2]
            /\ form = f
            /\ dms_string = Build(f)
       \/ \E t \in ExtraTokens : form = FreeForm /\ dms_string = t
       \/ form = MainForm /\ dms_string = <<>>
    /\ ret = Pending
    /\ sample_i = 0
    /\ pair = <<Pending, Pending>>
    /\ FileIdle

Call_dms_to_decimal ==
    /\ func = "none"
    /\ form.kind # "main"
    /\ ret.kind = "pending"
    /\ ret' = dms_to_decimal(dms_string)
    /\ UNCHANGED <<dms_string, form, sample_i, pair>>
    /\ UNCHANGED fileVars

\* for lat_dms, lng_dms in test_coords: convert_coordinate_string(...)
SampleConversion ==
    /\ func = "none"
    /\ form.kind = "main"
    /\ sample_i < Len(test_coords)
    /\ sample_i' = sample_i + 1
    /\ pair' = convert_coordinate_string(test_coords[sample_i + 1][1],
                                         test_coords[sample_i + 1][2])
    /\ UNCHANGED <<dms_string, form, ret>>
    /\ UNCHANGED fileVars



----------------------------------------------------------------------------
(* Inputs of the two file converters *)

MaxRows == 2

\* Field values of the first and of the second coordinate column: blank,
\* convertible, unmatched, and matched with a seconds text float() rejects.
LatTokens ==
    {<<>>,
     <<SP, "1", DEG, "2", AP, "3", AP, AP, "N">>,
     <<"x">>,
     <<"1", DEG, "2", AP, ".", AP, "N">>}

LngTokens ==
    {<<SP>>,
     <<"4", DEG, "5", AP, "6", ".", "5", DQ, "W", SP>>,
     <<SP, "8", "9", ".", "0", "9">>,
     <<"7", DEG, "0", AP, "1", ".", "2", ".", "3", AP, AP, "E">>}

\* Rows of the tab-delimited file as csv.reader yields them: a list of
\* fields, shorter than two for a blank or one-column line.
PairRows ==
    {<<a, b>> : a \in LatTokens, b \in LngTokens}
    \cup {<<>>, <<<<"4", DEG, "5", AP, "6", AP, "E">>>>,
          <<<<"4", DEG, "5", AP, "6", AP, "E">>, <<"0", DEG, "0", AP, "0", AP, "S">>, <<"z">>>>}

TowerFields == <<"objectid", "latitude", "longitude", "name">>

TowerRow(i, lat, lng) ==
    [objectid |-> NatStr(i), latitude |-> lat, longitude |-> lng, name |-> <<"t">>]

File(header, body) == [exists |-> TRUE, fieldnames |-> header, rows |-> body]

----------------------------------------------------------------------------
(* convert_coordinates_file *)

\* Closing the file object on leaving the with block, also by an exception.
Raise(e) ==
    /\ exc' = e
    /\ pc' = "raised"

P_OpenInput ==
    /\ func = "pairs" /\ pc = "open_in"
    /\ IF ~fs[input_file].exists
       THEN /\ Raise("FileNotFoundError")
            /\ UNCHANGED <<infile, reader>>
       ELSE /\ infile' = "open"
            /\ reader' = <<>>
            /\ pc' = "loop"
            /\ UNCHANGED exc
    /\ rows' = <<>>
    /\ UNCHANGED <<fs, func, input_file, output_file, fieldnames,
                   conversion_count, error_count, stdout, pass>>
    /\ UNCHANGED outfile
    /\ UNCHANGED parseVars

\* One iteration of "for row in reader".
P_Row ==
    /\ func = "pairs" /\ pc = "loop"
    /\ Len(reader) < Len(fs[input_file].rows)
    /\ LET row == fs[input_file].rows[Len(reader) + 1]
           taken == Len(row) >= 2 /\ strip(row[1]) # <<>> /\ strip(row[2]) # <<>>
           lat == dms_to_decimal(strip(row[1]))
           lng == dms_to_decimal(strip(row[2]))
       IN  /\ reader' = Append(reader, row)
           /\ IF ~taken
              THEN UNCHANGED <<rows, stdout, infile, exc, pc>>
              ELSE IF lat.kind = "ValueError"
              THEN /\ Raise("ValueError")
                   /\ infile' = "closed"
                   /\ UNCHANGED <<rows, stdout>>
              ELSE IF lng.kind = "ValueError"
              THEN /\ Raise("ValueError")
                   /\ infile' = "closed"
                   /\ stdout' = stdout \o lat.printed
                   /\ UNCHANGED rows
              ELSE /\ stdout' = stdout \o lat.printed \o lng.printed
                   /\ rows' = IF lat.kind = "float" /\ lng.kind = "float"
                              THEN Append(rows, <<lat.value, lng.value>>)
                              ELSE rows
                   /\ UNCHANGED <<infile, exc, pc>>
    /\ UNCHANGED <<fs, func, input_file, output_file, fieldnames,
                   conversion_count, error_count, pass>>
    /\ UNCHANGED outfile
    /\ UNCHANGED parseVars

P_CloseInput ==
    /\ func = "pairs" /\ pc = "loop"
    /\ Len(reader) = Len(fs[input_file].rows)
    /\ infile' = "closed"
    /\ pc' = "open_out"
    /\ UNCHANGED <<fs, func, input_file, output_file, reader, fieldnames, rows,
                   conversion_count, error_count, stdout, exc, pass>>
    /\ UNCHANGED outfile
    /\ UNCHANGED parseVars

\* open(output_file, 'w'): creates or truncates.
P_OpenOutput ==
    /\ func = "pairs" /\ pc = "open_out"
    /\ fs' = [fs EXCEPT ![output_file] = File(<<>>, <<>>)]
    /\ outfile' = "open"
    /\ pc' = "write"
    /\ UNCHANGED <<func, input_file, output_file, infile, reader, fieldnames, rows,
                   conversion_count, error_count, stdout, exc, pass>>
    /\ UNCHANGED parseVars

\* writerow(header), writerows(converted_coords), close, return.
P_Write ==
    /\ func = "pairs" /\ pc = "write"
    /\ fs' = [fs EXCEPT ![output_file] =
                File(<<"Latitude", "Longitude">>,
                     [i \in 1..Len(rows) |-> <<str(rows[i][1]), str(rows[i][2])>>])]
    /\ outfile' = "closed"
    /\ pc' = "done"
    /\ UNCHANGED <<func, input_file, output_file, infile, reader, fieldnames, rows,
                   conversion_count, error_count, stdout, exc, pass>>
    /\ UNCHANGED parseVars

----------------------------------------------------------------------------
(* convert_firetower_csv *)

\* A variant that blanks a field it could not convert.
ConvertField_clears_failed(st, field) ==
    LET raw == st.row[field]
        d == dms_to_decimal(strip(raw))
    IN  IF st.raised \/ raw = <<>> \/ strip(raw) = <<>> THEN st
        ELSE IF d.kind = "ValueError" THEN [st EXCEPT !.raised = TRUE]
        ELSE IF d.kind = "float"
        THEN [st EXCEPT !.row = [st.row EXCEPT ![field] = str(d.value)],
                        !.conv = st.conv + 1]
        ELSE [st EXCEPT !.row = [st.row EXCEPT ![field] = <<>>],
                        !.err = st.err + 1,
                        !.out = st.out \o d.printed
                                \o << <<"Warning: Could not convert", <<field>>,
                                        st.row["objectid"], raw>> >>]

\* The block "if row[field] and row[field].strip(): ..." applied to the loop
\* state st = [row, conv, err, out, raised].
ConvertField(st, field) ==
    LET raw == st.row[field]
        d == dms_to_decimal(strip(raw))
    IN  IF st.raised \/ raw = <<>> \/ strip(raw) = <<>> THEN st
        ELSE IF d.kind = "ValueError" THEN [st EXCEPT !.raised = TRUE]
        ELSE IF d.kind = "float"
        THEN [st EXCEPT !.row = [st.row EXCEPT ![field] = str(d.value)],
                        !.conv = st.conv + 1]
        ELSE [st EXCEPT !.err = st.err + 1,
                        !.out = st.out \o d.printed
                                \o << <<"Warning: Could not convert", <<field>>,
                                        st.row["objectid"], raw>> >>]

T_Start ==
    /\ func = "tower" /\ pc = "start"
    /\ output_file' = IF output_file = "None" THEN input_file ELSE output_file
    /\ pc' = "open_in"
    /\ UNCHANGED <<fs, func, input_file, infile, reader, fieldnames, rows,
                   conversion_count, error_count, stdout, exc, pass>>
    /\ UNCHANGED outfile
    /\ UNCHANGED parseVars

T_OpenInput ==
    /\ func = "tower" /\ pc = "open_in"
    /\ IF ~fs[input_file].exists
       THEN /\ Raise("FileNotFoundError")
            /\ UNCHANGED <<infile, reader, fieldnames, rows,
                           conversion_count, error_count>>
       ELSE /\ infile' = "open"
            /\ reader' = <<>>
            /\ fieldnames' = fs[input_file].fieldnames
            /\ rows' = <<>>
            /\ conversion_count' = 0
            /\ error_count' = 0
            /\ pc' = "loop"
            /\ UNCHANGED exc
    /\ UNCHANGED <<fs, func, input_file, output_file, stdout, pass>>
    /\ UNCHANGED outfile
    /\ UNCHANGED parseVars

T_Row ==
    /\ func = "tower" /\ pc = "loop"
    /\ Len(reader) < Len(fs[input_file].rows)
    /\ LET row == fs[input_file].rows[Len(reader) + 1]
           st0 == [row |-> row, conv |-> conversion_count, err |-> error_count,
                   out |-> stdout, raised |-> FALSE]
           st == ConvertField(ConvertField(st0, "latitude"), "longitude")
       IN  /\ reader' = Append(reader, row)
           /\ stdout' = st.out
           /\ conversion_count' = st.conv
           /\ error_count' = st.err
           /\ IF st.raised
              THEN /\ Raise("ValueError")
                   /\ infile' = "closed"
                   /\ UNCHANGED rows
              ELSE /\ rows' = Append(rows, st.row)
                   /\ UNCHANGED <<infile, exc, pc>>
    /\ UNCHANGED <<fs, func, input_file, output_file, fieldnames, pass>>
    /\ UNCHANGED outfile
    /\ UNCHANGED parseVars

T_CloseInput ==
    /\ func = "tower" /\ pc = "loop"
    /\ Len(reader) = Len(fs[input_file].rows)
    /\ infile' = "closed"
    /\ pc' = "open_out"
    /\ UNCHANGED <<fs, func, input_file, output_file, reader, fieldnames, rows,
                   conversion_count, error_count, stdout, exc, pass>>
    /\ UNCHANGED outfile
    /\ UNCHANGED parseVars

\* A variant that opens the output in the same with statement as the input,
\* before any record is read.
T_OpenOutput_nested ==
    /\ func = "tower" /\ pc = "loop"
    /\ outfile = "unopened" /\ reader = <<>>
    /\ fs' = [fs EXCEPT ![output_file] = File(<<>>, <<>>)]
    /\ outfile' = "open"
    /\ UNCHANGED <<func, input_file, output_file, infile, reader, fieldnames, rows,
                   conversion_count, error_count, stdout, pc, exc, pass>>
    /\ UNCHANGED parseVars

T_OpenOutput ==
    /\ func = "tower" /\ pc = "open_out"
    /\ fs' = [fs EXCEPT ![output_file] = File(<<>>, <<>>)]
    /\ outfile' = "open"
    /\ pc' = "write"
    /\ UNCHANGED <<func, input_file, output_file, infile, reader, fieldnames, rows,
                   conversion_count, error_count, stdout, exc, pass>>
    /\ UNCHANGED parseVars

\* DictWriter(outfile, fieldnames): writeheader, writerows(rows), close.
T_Write ==
    /\ func = "tower" /\ pc = "write"
    /\ fs' = [fs EXCEPT ![output_file] = File(fieldnames, rows)]
    /\ outfile' = "closed"
    /\ pc' = "summary"
    /\ UNCHANGED <<func, input_file, output_file, infile, reader, fieldnames, rows,
                   conversion_count, error_count, stdout, exc, pass>>
    /\ UNCHANGED parseVars

Summary ==
    << <<"Conversion complete!">>,
       <<"Successfully converted", NatStr(conversion_count)>>,
       <<"Errors encountered", NatStr(error_count)>>,
       <<"Output saved to", <<output_file>> >> >>

T_Summary ==
    /\ func = "tower" /\ pc = "summary"
    /\ stdout' = stdout \o Summary
    /\ pc' = "done"
    /\ UNCHANGED <<fs, func, input_file, output_file, infile, reader, fieldnames,
                   rows, conversion_count, error_count, exc, pass>>
    /\ UNCHANGED outfile
    /\ UNCHANGED parseVars

\* A second call of convert_firetower_csv, on the file the first one wrote.
T_Rerun ==
    /\ func = "tower" /\ pc = "done" /\ pass = 1
    /\ pass' = 2
    /\ input_file' = output_file
    /\ output_file' = "None"
    /\ infile' = "unopened"
    /\ outfile' = "unopened"
    /\ pc' = "start"
    /\ UNCHANGED <<fs, func, reader, fieldnames, rows,
                   conversion_count, error_count, stdout, exc>>
    /\ UNCHANGED parseVars

----------------------------------------------------------------------------

InitFiles ==
    /\ dms_string = <<>> /\ form = FreeForm /\ ret = Pending
    /\ sample_i = 0 /\ pair = <<Pending, Pending>>
    /\ input_file = "in"
    /\ infile = "unopened"
    /\ outfile = "unopened"
    /\ reader = <<>>
    /\ fieldnames = <<>>
    /\ rows = <<>>
    /\ conversion_count = 0
    /\ error_count = 0
    /\ stdout = <<>>
    /\ exc = "none"
    /\ pass = 1
    /\ \/ /\ func = "pairs" /\ pc = "open_in" /\ output_file = "out"
          /\ \E n \in 0..MaxRows : \E body \in [1..n -> PairRows] :
                fs = [p \in {"in", "out"} |->
                        IF p = "in" THEN File(<<"lat", "lng">>, body) ELSE Missing]
       \/ /\ func = "tower" /\ pc = "start" /\ output_file \in {"out", "None"}
          /\ \E n \in 0..MaxRows :
               \E la \in [1..n -> LatTokens], lo \in [1..n -> LngTokens] :
                fs = [p \in {"in", "out"} |->
                        IF p = "in"
                        THEN File(TowerFields, [i \in 1..n |-> TowerRow(i, la[i], lo[i])])
                        ELSE Missing]
       \/ /\ func \in {"pairs", "tower"}
          /\ pc = (IF func = "pairs" THEN "open_in" ELSE "start")
          /\ output_file = "out"
          /\ \E old \in {Missing, File(<<"old">>, <<>>)} :
                fs = [p \in {"in", "out"} |-> IF p = "in" THEN Missing ELSE old]

Init == InitParse \/ InitFiles

Next ==
    \/ Call_dms_to_decimal \/ SampleConversion
    \/ P_OpenInput \/ P_Row \/ P_CloseInput \/ P_OpenOutput \/ P_Write
    \/ T_Start \/ T_OpenInput \/ T_Row \/ T_CloseInput \/ T_OpenOutput
    \/ T_Write \/ T_Summary \/ T_Rerun

Spec == Init /\ [][Next]_vars


----------------------------------------------------------------------------
(* Properties of dms_to_decimal *)

Blank(s) == \A i \in 1..Len(s) : s[i] = SP

RECURSIVE Numeral(_)
Numeral(ds) ==
    IF ds = <<>> THEN 0
    ELSE DigitVal(Head(ds)) * Pow10(Len(ds) - 1) + Numeral(Tail(ds))

DecimalNumber(txt) ==
    /\ Cardinality({i \in 1..Len(txt) : txt[i] = "."}) <= 1
    /\ \E i \in 1..Len(txt) : txt[i] \in Digits

\* Digits after the point of a decimal number.
Scale(txt) ==
    IF \E i \in 1..Len(txt) : txt[i] = "."
    THEN Len(txt) - (CHOOSE i \in 1..Len(txt) : txt[i] = ".")
    ELSE 0

Mantissa(txt) == Numeral(SelectSeq(txt, LAMBDA c : c # "."))

Terminators == {<<AP, AP>>, <<DQ>>, <<AP>>}

\* The token is exactly D deg M ' S terminator H.
PlainForm(f) ==
    /\ f.kind = "dms"
    /\ f.pre = <<>> /\ f.suf = <<>>
    /\ f.term \in Terminators
    /\ f.hemi \in NSEW
    /\ DecimalNumber(f.sec)

\* x is D + M/60 + S/3600 rounded to 8 decimals: x lies within half of
\* 10^-8 of the exact value (S = mant/10^sc, sc <= 4).
RoundedSum(x, D, M, mant, sc) ==
    LET den == 3600 * Pow10(sc)
        t == M * 60 * Pow10(sc) + mant
        k == x.int - (D + t \div den)
        e == k * Pow10(8) + x.frac
        d == 9 * e - (t % den) * 25 * Pow10(4 - sc)
    IN  /\ k \in {0, 1}
        /\ 2 * d <= 9
        /\ 2 * d >= -9

Done == ret.kind # "pending"

\* C1: for every token D deg M ' S t H (t one of the three terminators, S a
\* decimal number, H in NSEW) dms_to_decimal returns D + M/60 + S/3600
\* rounded to 8 decimals, negative exactly for S and W; the first sample
\* pair gives (33.79444444, -89.09083333).
C1_Formula ==
    /\ (Done /\ PlainForm(form)) =>
          /\ ret.kind = "float"
          /\ RoundedSum(ret.value, Numeral(form.deg), Numeral(form.min),
                        Mantissa(form.sec), Scale(form.sec))
          /\ ret.value.neg <=> form.hemi \in {"S", "W"}
    /\ sample_i = 1 =>
          /\ pair[1].kind = "float" /\ pair[2].kind = "float"
          /\ pair[1].value = [neg |-> FALSE, int |-> 33, frac |-> 79444444]
          /\ pair[2].value = [neg |-> TRUE, int |-> 89, frac |-> 9083333]

C1_Witness ==
    /\ Done /\ PlainForm(form) /\ ret.kind = "float"
    /\ form.hemi = "W" /\ form.term = <<AP>>
    /\ form.min = <<"6", "1">> /\ form.sec = <<"1", "2", ".", "8">>
    /\ ret.value = [neg |-> TRUE, int |-> 2, frac |-> 2022222]

MatchesSomewhere(term, t) == \E i \in 1..Len(t) : MatchAt(term, t, i).found

\* C2: whenever one of the three patterns matches the token, dms_to_decimal
\* returns a number (it never raises).
C2_NeverRaises ==
    (Done /\ \E k \in 1..3 : MatchesSomewhere(patterns[k], strip(dms_string)))
        => ret.kind = "float"

\* The order the patterns are said to be tried in.
ClaimedOrder == << <<AP, AP>>, <<DQ>>, <<AP>> >>

\* C3: the groups come from the first of (a) double apostrophe, (b) double
\* quote, (c) single apostrophe that matches anywhere in the trimmed token,
\* whatever surrounds the matched substring; the first sample token is
\* matched by (a) with seconds 40.
C3_Formula ==
    /\ (Done /\ ~Blank(dms_string)) =>
          LET t == strip(dms_string)
              hits == {k \in 1..3 : MatchesSomewhere(ClaimedOrder[k], t)}
          IN  IF hits = {} THEN ret.pattern = 0
              ELSE LET k == CHOOSE k \in hits : \A j \in hits : k <= j
                   IN  /\ ret.pattern = k
                       /\ \E i \in 1..Len(t) :
                             /\ MatchAt(ClaimedOrder[k], t, i).found
                             /\ MatchAt(ClaimedOrder[k], t, i).groups = ret.groups
    /\ (Done /\ form.kind = "dms" /\ form.term \in Terminators /\ form.hemi \in NSEW
             /\ form.pre \in {<<>>, <<SP>>, <<"x">>}) =>
          ret.groups = <<form.deg, form.min, form.sec, form.hemi>>
    /\ sample_i = 1 =>
          /\ pair[1].pattern = 1
          /\ pair[1].groups = << <<"3", "3">>, <<"4", "7">>, <<"4", "0">>, "N" >>

\* A token whose first DMS substring ends in a single apostrophe and whose
\* second ends in a double apostrophe: the second one is taken.
C3_Witness ==
    /\ Done /\ form.kind = "free"
    /\ MatchAt(<<AP>>, dms_string, 1).found
    /\ ret.pattern = 1
    /\ ret.groups = << <<"4">>, <<"2">>, <<"6">>, "S" >>

\* C4: None and no diagnostic for a blank token; None and exactly one
\* diagnostic naming the trimmed token when no pattern matches; a number
\* and no diagnostic in every other case.
C4_Original ==
    Done =>
      IF Blank(dms_string)
      THEN ret.kind = "None" /\ ret.printed = <<>>
      ELSE IF \A k \in 1..3 : ~MatchesSomewhere(ClaimedOrder[k], strip(dms_string))
      THEN /\ ret.kind = "None"
           /\ ret.printed = << <<"Could not parse: ", strip(dms_string)>> >>
      ELSE ret.kind = "float" /\ ret.printed = <<>>

DoubleApostropheToken == PlainForm(form) /\ form.term = <<AP, AP>>

\* C10 as stated: a token D deg M ' S '' H also satisfies the
\* single-apostrophe pattern.
C10_Original ==
    (Done /\ DoubleApostropheToken) => MatchesSomewhere(<<AP>>, strip(dms_string))

Orders == {<<1, 2, 3>>, <<1, 3, 2>>, <<2, 1, 3>>, <<2, 3, 1>>, <<3, 1, 2>>, <<3, 2, 1>>}

\* C10, amended: a token D deg M ' S '' H satisfies neither the third
\* (single apostrophe) nor the second pattern, so every order of the three
\* patterns extracts the same groups from it.
C10_Amended ==
    (Done /\ DoubleApostropheToken) =>
        /\ ~MatchesSomewhere(patterns[3], strip(dms_string))
        /\ ~MatchesSomewhere(patterns[2], strip(dms_string))
        /\ \A o \in Orders :
              TryPatternsIn([k \in 1..3 |-> patterns[o[k]]], strip(dms_string), 1).match
                 = [found |-> TRUE, groups |-> ret.groups]

C10_Witness ==
    /\ Done /\ DoubleApostropheToken
    /\ ret.pattern = 1
    /\ ret.groups = << <<"3", "3">>, <<"0", "5">>, <<"4", "0">>, "E" >>


----------------------------------------------------------------------------
(* Properties of the two file converters *)

CoordFields == {"latitude", "longitude"}

NonBlankFields(body) ==
    Cardinality({x \in (1..Len(body)) \X CoordFields : ~Blank(body[x[1]][x[2]])})

Terminated == pc \in {"done", "raised"} /\ exc # "FileNotFoundError"

\* C5: after a run over N records the output has exactly N records in input
\* order and conversion_count + error_count is the number of non-blank
\* latitude and longitude fields.
C5_Original ==
    (func = "tower" /\ pass = 1 /\ Terminated) =>
        LET given == IF pc = "raised" THEN fs[input_file].rows ELSE reader
            emitted == IF pc = "done" THEN rows ELSE <<>>
        IN  /\ Len(emitted) = Len(given)
            /\ \A i \in 1..Len(emitted) : emitted[i].objectid = given[i].objectid
            /\ conversion_count + error_count = NonBlankFields(given)

LatText == <<"1", ".", "0", "3", "4", "1", "6", "6", "6", "7">>
LngText == <<"-", "4", ".", "0", "8", "5", "1", "3", "8", "8", "9">>

\* What a coordinate field holds after the run: the decimal text of the two
\* convertible field values, any other value as it was read.
ExpectedField(raw) ==
    IF raw = <<SP, "1", DEG, "2", AP, "3", AP, AP, "N">> THEN LatText
    ELSE IF raw = <<"4", DEG, "5", AP, "6", ".", "5", DQ, "W", SP>> THEN LngText
    ELSE raw

\* C6: every emitted record has the fields of the record read; latitude and
\* longitude each hold the decimal text if the value parsed and the value as
\* read otherwise; every other field is as read; the file written has the
\* input's field names in their order and exactly the emitted records.
C6_Formula ==
    func = "tower" =>
        /\ Len(rows) <= Len(reader)
        /\ \A i \in 1..Len(rows) :
              /\ DOMAIN rows[i] = DOMAIN reader[i]
              /\ \A f \in DOMAIN reader[i] :
                    rows[i][f] = IF f \in CoordFields THEN ExpectedField(reader[i][f])
                                 ELSE reader[i][f]
        /\ pc \in {"summary", "done"} =>
              /\ Len(rows) = Len(reader)
              /\ fs[output_file] = File(TowerFields, rows)

C6_Witness ==
    /\ func = "tower" /\ pass = 1 /\ pc = "done"
    /\ \E i \in 1..Len(rows) :
          /\ reader[i].latitude = <<"x">>
          /\ rows[i].latitude = <<"x">>
          /\ rows[i].longitude = LngText
    /\ fs[output_file].rows = rows

BothParse(row) ==
    /\ Len(row) >= 2
    /\ ~Blank(row[1]) /\ ~Blank(row[2])
    /\ dms_to_decimal(strip(row[1])).kind = "float"
    /\ dms_to_decimal(strip(row[2])).kind = "float"

RECURSIVE ExpectedPairs(_)
ExpectedPairs(body) ==
    IF body = <<>> THEN <<>>
    ELSE (IF BothParse(Head(body))
          THEN << <<dms_to_decimal(strip(Head(body)[1])).value,
                    dms_to_decimal(strip(Head(body)[2])).value>> >>
          ELSE <<>>) \o ExpectedPairs(Tail(body))

\* C7: the output of convert_coordinates_file is, in input order, the
\* converted pairs of the rows whose two tokens both parse; a failing row
\* never stops later rows; the output has as many rows as the input iff
\* every row parsed.
C7_Original ==
    (func = "pairs" /\ Terminated) =>
        LET given == fs[input_file].rows
        IN  /\ pc = "done"
            /\ rows = ExpectedPairs(given)
            /\ Len(fs[output_file].rows) = Len(rows)
            /\ Len(rows) <= Len(given)
            /\ Len(rows) = Len(given) <=> \A i \in 1..Len(given) : BothParse(given[i])

\* C8: the text of a value dms_to_decimal returned does not parse, and a
\* second run of convert_firetower_csv over the file the first run wrote
\* leaves every record as it was, converts nothing, and counts one error for
\* each non-blank latitude or longitude field.
C8_Formula ==
    /\ (Done /\ ret.kind = "float") =>
          /\ dms_to_decimal(str(ret.value)).kind = "None"
          /\ \A i \in 1..Len(str(ret.value)) : str(ret.value)[i] # DEG
    /\ (func = "tower" /\ pass = 2 /\ pc = "done") =>
          /\ rows = reader
          /\ fs[output_file].rows = reader
          /\ conversion_count = 0
          /\ error_count = NonBlankFields(reader)

C8_Witness ==
    /\ func = "tower" /\ pass = 2 /\ pc = "done"
    /\ \E i \in 1..Len(reader) :
          reader[i].latitude = LatText /\ reader[i].longitude = LngText
    /\ conversion_count = 0
    /\ error_count >= 2

NoSummary == \A i \in 1..Len(stdout) : stdout[i][1] # "Conversion complete!"

\* C9: the output file is opened only once the input has been opened, read
\* to its end and closed; the file system changes only through the opened
\* output file; after a failure to open the input, no output was opened and
\* no summary printed; the input is never changed before all its records
\* were read.
C9_Formula ==
    [][ /\ (fs' # fs) =>
              /\ outfile' # "unopened"
              /\ \A p \in DOMAIN fs : p # output_file => fs'[p] = fs[p]
        /\ (outfile = "unopened" /\ outfile' = "open") =>
              /\ infile = "closed"
              /\ exc = "none"
              /\ fs[input_file].exists
              /\ Len(reader) = Len(fs[input_file].rows)
        /\ (fs'[input_file] # fs[input_file]) =>
              /\ infile = "closed"
              /\ outfile = "unopened" => Len(reader) = Len(fs[input_file].rows)
        /\ (exc' = "FileNotFoundError") =>
              /\ outfile' = "unopened"
              /\ fs' = fs
              /\ NoSummary'
      ]_vars

\* An in-place run that has read, then overwritten, its input.
C9_Witness ==
    /\ func = "tower" /\ pass = 1 /\ pc = "done"
    /\ output_file = input_file
    /\ outfile = "closed" /\ infile = "closed"
    /\ Len(reader) >= 1
    /\ fs[input_file].rows = rows

====
